---- MODULE Spec2Model ----
(***************************************************************************)
(* Transition-based sentence generator (syntaxnet generator_state /        *)
(* generator_transitions).  One GeneratorState object, driven through the  *)
(* GeneratorTransitionSystem and through the public stack operations of    *)
(* GeneratorState.  CHECK failures abort the process; DCHECKs are only     *)
(* compiled into debug builds.                                             *)
(***************************************************************************)
EXTENDS Integers, Sequences, FiniteSets, TLC

\* ---------------------------------------------------------------- bounds
\* Largest number of tokens ADD may create (and of words WORD may append).
MaxTokens == 2
\* Largest stack depth at which the driver still calls Push directly.
MaxStack == 2
\* Largest number of levels / siblings n asked of a navigation query.
MaxLevels == 2
\* Largest vocabulary size (labels, tags, words) a transition system is
\* built with when the codec is exercised on its own.
MaxVocab == 3
\* Largest number of transitions recorded in the history before cloning.
MaxHistory == 1
\* Largest number of tokens, and largest stack the driver builds by hand,
\* in a run that clones the state.
MaxCloneTokens == 1
MaxCloneStack == 2
\* Largest number of actions applied to the two objects after cloning.
MaxCloneSteps == 2
\* Largest number of calls (bookkeeping and actions) made on the beam
\* wrappers once the first one exists.
MaxWrapperSteps == 3

\* Tokens generated before a document is created.
MaxDocTokens == 2

\* ------------------------------------------------------ program constants
num_labels == 2
num_tags == 1
num_words == 2

COLLAPSE == 0
ADD == 1
WORD == 2

\* Outcome of a query in which a CHECK failed (no value is returned).
CheckFailed == -100

\* ------------------------------------------------------------------ state
VARIABLES
  stack,      \* GeneratorState::stack_   (sequence, last element = top)
  head,       \* GeneratorState::head_
  label,      \* GeneratorState::label_
  tag,        \* GeneratorState::tag_
  word,       \* GeneratorState::word_
  next,       \* GeneratorState::next_
  failed,     \* a CHECK / DCHECK failed: the process has aborted
  debug,      \* TRUE: debug build (DCHECK active); FALSE: NDEBUG build
  last,       \* the last operation the driver issued
  onlyLegal,  \* every action performed so far was allowed when performed
  noDirect,   \* the driver has not called Push / Pop on the state itself
  scen,       \* progress through the end-to-end scenario, -1 when off it
  collapsed,  \* the positions COLLAPSE has popped so far
  keep_history, \* GeneratorState::keep_history_
  history,    \* GeneratorState::history_
  clone,      \* the object returned by GeneratorState::Clone, if any
  codec,      \* a transition system built for other vocabulary sizes
  beam,       \* the dragnn wrappers around the state and around its clone
  document    \* the sentence CreateDocument has filled, if any

data == <<stack, head, label, tag, word, next>>
\* What the single-object runs never touch.
aux == <<keep_history, history, clone, codec, beam, document>>
vars == <<stack, head, label, tag, word, next, failed, debug, last,
          onlyLegal, noDirect, scen, collapsed, keep_history, history,
          clone, codec, beam, document>>

\* ------------------------------------------------------------ action codec
CollapseAction == COLLAPSE

\* The codec of a transition system built with L labels, T tags, W words.
AddActionFor(L, l, t) == 1 + l + L * t

WordActionFor(L, T, w) == 1 + L * T + w

\* Variant: the last ADD code is taken for a WORD.
ActionTypeFor_lt(L, T, action) ==
  IF action = 0 THEN COLLAPSE
  ELSE IF action < L * T THEN ADD
  ELSE WORD

ActionTypeFor(L, T, action) ==
  IF action = 0 THEN COLLAPSE
  ELSE IF action <= L * T THEN ADD
  ELSE WORD

LabelFor(L, T, action) ==
  IF action > 0 /\ action <= L * T
  THEN (action - 1) % L
  ELSE -1

\* Variant: the tag is taken modulo instead of divided.
TagFor_mod(L, T, action) ==
  IF action > 0 /\ action <= L * T
  THEN (action - 1) % L
  ELSE -1

TagFor(L, T, action) ==
  IF action > 0 /\ action <= L * T
  THEN (action - 1) \div L
  ELSE -1

WordFor(L, T, action) ==
  IF action > L * T
  THEN action - L * T - 1
  ELSE -1

NumActionsFor(L, T, W) == 1 + L * T + W

\* The codec of the transition system that drives the state.
AddAction(l, t) == AddActionFor(num_labels, l, t)

WordAction(w) == WordActionFor(num_labels, num_tags, w)

ActionType(action) == ActionTypeFor(num_labels, num_tags, action)

Label(action) == LabelFor(num_labels, num_tags, action)

Tag(action) == TagFor(num_labels, num_tags, action)

\* Variant: the decoded word is off by one.
Word_offbyone(action) ==
  IF action > num_labels * num_tags
  THEN action - num_labels * num_tags
  ELSE -1

Word(action) == WordFor(num_labels, num_tags, action)

NumActions == NumActionsFor(num_labels, num_tags, num_words)

\* The actions the driver proposes.
ActionDomain == 0 .. (NumActions - 1)

\* The positions the driver pushes directly: the root and the first token.
PushDomain == {-1, 0}

\* ------------------------------------------------------- state queries
StackSize == Len(stack)

StackEmpty == Len(stack) = 0

\* Variant: position 1 is the top.
Stack_one(position) ==
  IF position < 0 THEN -2
  ELSE LET index == Len(stack) - position
       IN  IF index < 0 \/ index >= Len(stack) THEN -2 ELSE stack[index + 1]

Stack(position) ==
  IF position < 0 THEN -2
  ELSE LET index == Len(stack) - 1 - position
       IN  IF index < 0 THEN -2 ELSE stack[index + 1]

MissingWord == Len(head) > Len(word)

\* ----------------------------------------------------- tree navigation
\* GeneratorState::Head: CHECK_GE(index, -1); CHECK_LT(index, head_.size()).
HeadAt(index) ==
  IF index < -1 \/ ~(index < Len(head)) THEN CheckFailed
  ELSE IF index = -1 THEN -1 ELSE head[index + 1]

RECURSIVE ParentLoop(_, _)
ParentLoop(index, n) ==
  IF ~(n > 0) THEN index
  ELSE LET h == HeadAt(index)
       IN  IF h = CheckFailed THEN CheckFailed ELSE ParentLoop(h, n - 1)

Parent(index, n) ==
  IF index < -1 THEN CheckFailed ELSE ParentLoop(index, n)

\* for (i = -1; i < index; ++i) if (HeadAt(i) == index) break;
RECURSIVE LeftmostScan(_, _)
LeftmostScan(i, index) ==
  IF ~(i < index) THEN i
  ELSE LET h == HeadAt(i)
       IN  IF h = CheckFailed THEN CheckFailed
           ELSE IF h = index THEN i
           ELSE LeftmostScan(i + 1, index)

RECURSIVE LeftmostChildLoop(_, _)
LeftmostChildLoop(index, n) ==
  IF ~(n > 0) THEN index
  ELSE LET i == LeftmostScan(-1, index)
       IN  IF i = CheckFailed THEN CheckFailed
           ELSE IF i = index THEN -2
           ELSE LeftmostChildLoop(i, n - 1)

LeftmostChild(index, n) ==
  IF index < -1 THEN CheckFailed ELSE LeftmostChildLoop(index, n)

\* for (i = head_.size() - 1; i > index; --i) if (Head(i) == index) break;
RECURSIVE RightmostScan(_, _)
RightmostScan(i, index) ==
  IF ~(i > index) THEN i
  ELSE LET h == HeadAt(i)
       IN  IF h = CheckFailed THEN CheckFailed
           ELSE IF h = index THEN i
           ELSE RightmostScan(i - 1, index)

\* Variant: the backward scan starts one position short of the end.
RECURSIVE RightmostChildLoop_short(_, _)
RightmostChildLoop_short(index, n) ==
  IF ~(n > 0) THEN index
  ELSE LET i == RightmostScan(Len(head) - 2, index)
       IN  IF i = CheckFailed THEN CheckFailed
           ELSE IF i = index THEN -2
           ELSE RightmostChildLoop_short(i, n - 1)

RECURSIVE RightmostChildLoop(_, _)
RightmostChildLoop(index, n) ==
  IF ~(n > 0) THEN index
  ELSE LET i == RightmostScan(Len(head) - 1, index)
       IN  IF i = CheckFailed THEN CheckFailed
           ELSE IF i = index THEN -2
           ELSE RightmostChildLoop(i, n - 1)

RightmostChild(index, n) ==
  IF index < -1 THEN CheckFailed ELSE RightmostChildLoop(index, n)

\* Variant: running off the left end yields the root.
RECURSIVE LeftSiblingLoop_root(_, _, _)
LeftSiblingLoop_root(i, index, n) ==
  IF ~(n > 0) THEN i
  ELSE LET j == i - 1
       IN  IF j = -1 THEN -1
           ELSE IF HeadAt(j) = CheckFailed \/ HeadAt(index) = CheckFailed
                THEN CheckFailed
           ELSE IF HeadAt(j) = HeadAt(index)
                THEN LeftSiblingLoop_root(j, index, n - 1)
           ELSE LeftSiblingLoop_root(j, index, n)

\* while (n > 0) { --i; if (i == -1) return -2; if (...) --n; }
RECURSIVE LeftSiblingLoop(_, _, _)
LeftSiblingLoop(i, index, n) ==
  IF ~(n > 0) THEN i
  ELSE LET j == i - 1
       IN  IF j = -1 THEN -2
           ELSE IF HeadAt(j) = CheckFailed \/ HeadAt(index) = CheckFailed
                THEN CheckFailed
           ELSE IF HeadAt(j) = HeadAt(index)
                THEN LeftSiblingLoop(j, index, n - 1)
           ELSE LeftSiblingLoop(j, index, n)

LeftSibling(index, n) ==
  IF index < -1 THEN CheckFailed
  ELSE IF index = -1 /\ n > 0 THEN -2
  ELSE LeftSiblingLoop(index, index, n)

\* Variant: every position to the right counts as a sibling.
RECURSIVE RightSiblingLoop_any(_, _, _)
RightSiblingLoop_any(i, index, n) ==
  IF ~(n > 0) THEN i
  ELSE LET j == i + 1
       IN  IF j = Len(head) THEN -2
           ELSE IF HeadAt(j) = CheckFailed \/ HeadAt(index) = CheckFailed
                THEN CheckFailed
           ELSE RightSiblingLoop_any(j, index, n - 1)

\* Variant: the scan stops one position past the end.
RECURSIVE RightSiblingLoop_past(_, _, _)
RightSiblingLoop_past(i, index, n) ==
  IF ~(n > 0) THEN i
  ELSE LET j == i + 1
       IN  IF j = Len(head) + 1 THEN -2
           ELSE IF HeadAt(j) = CheckFailed \/ HeadAt(index) = CheckFailed
                THEN CheckFailed
           ELSE IF HeadAt(j) = HeadAt(index)
                THEN RightSiblingLoop_past(j, index, n - 1)
           ELSE RightSiblingLoop_past(j, index, n)

\* while (n > 0) { ++i; if (i == head_.size()) return -2; if (...) --n; }
RECURSIVE RightSiblingLoop(_, _, _)
RightSiblingLoop(i, index, n) ==
  IF ~(n > 0) THEN i
  ELSE LET j == i + 1
       IN  IF j = Len(head) THEN -2
           ELSE IF HeadAt(j) = CheckFailed \/ HeadAt(index) = CheckFailed
                THEN CheckFailed
           ELSE IF HeadAt(j) = HeadAt(index)
                THEN RightSiblingLoop(j, index, n - 1)
           ELSE RightSiblingLoop(j, index, n)

RightSibling(index, n) ==
  IF index < -1 THEN CheckFailed
  ELSE IF index = -1 /\ n > 0 THEN -2
  ELSE RightSiblingLoop(index, index, n)

\* ---------------------------------------------------- legality predicates
\* Variant: the depth floor is one too low.
IsAllowedCollapse_depth1 == ~MissingWord /\ StackSize > 1

\* Variant: the depth floor is missing.
IsAllowedCollapse_nodepth == ~MissingWord

\* Variant: the missing-word test is missing.
IsAllowedCollapse_nomissing == StackSize > 2

IsAllowedCollapse == ~MissingWord /\ StackSize > 2

\* Variant: ADD is allowed whether or not a word is missing.
IsAllowedAdd_always == TRUE

IsAllowedAdd == ~MissingWord

\* Variant: WORD is never allowed.
IsAllowedWord_never == FALSE

IsAllowedWord == MissingWord

IsAllowedAction(action) ==
  CASE ActionType(action) = COLLAPSE -> IsAllowedCollapse
    [] ActionType(action) = ADD      -> IsAllowedAdd
    [] ActionType(action) = WORD     -> IsAllowedWord
    [] OTHER                         -> FALSE

IsDeterministicState == StackSize < 2

\* Variant: final only when the stack is empty.
IsFinalState_empty == StackSize < 1

IsFinalState == StackSize < 2

\* ------------------------------------------------- GeneratorState mutators
\* A failed CHECK: the process aborts, the object is left as it was.
Abort == failed' = TRUE /\ UNCHANGED data

Push(index) ==
  /\ stack' = Append(stack, index)
  /\ UNCHANGED <<head, label, tag, word, next, failed>>

\* The value Pop returns: the element on top before the call.
PopResult == stack[Len(stack)]

\* Variant: the element is removed from the wrong end.
Pop_bottom ==
  IF StackEmpty
  THEN Abort
  ELSE /\ stack' = SubSeq(stack, 2, Len(stack))
       /\ UNCHANGED <<head, label, tag, word, next, failed>>

Pop ==
  IF StackEmpty
  THEN Abort
  ELSE /\ stack' = SubSeq(stack, 1, Len(stack) - 1)
       /\ UNCHANGED <<head, label, tag, word, next, failed>>

\* Variant: the tag is not recorded.
Add_notag(l, t) ==
  IF ~(StackSize > 1)
  THEN Abort
  ELSE LET s0 == stack[Len(stack)]
       IN  /\ stack' = Append(stack, next)
           /\ head' = Append(head, s0)
           /\ label' = Append(label, l)
           /\ next' = next + 1
           /\ UNCHANGED <<tag, word, failed>>

\* Variant: the new token is attached to itself instead of the old top.
Add_selfhead(l, t) ==
  IF ~(StackSize > 1)
  THEN Abort
  ELSE /\ stack' = Append(stack, next)
       /\ head' = Append(head, next)
       /\ label' = Append(label, l)
       /\ tag' = Append(tag, t)
       /\ next' = next + 1
       /\ UNCHANGED <<word, failed>>

\* Variant: the new token is attached to the element below the old top.
Add_below(l, t) ==
  IF ~(StackSize > 1)
  THEN Abort
  ELSE LET s1 == stack[Len(stack) - 1]
       IN  /\ stack' = Append(stack, next)
           /\ head' = Append(head, s1)
           /\ label' = Append(label, l)
           /\ tag' = Append(tag, t)
           /\ next' = next + 1
           /\ UNCHANGED <<word, failed>>

Add(l, t) ==
  IF ~(StackSize > 1)
  THEN Abort
  ELSE LET s0 == stack[Len(stack)]
       IN  /\ stack' = Append(stack, next)
           /\ head' = Append(head, s0)
           /\ label' = Append(label, l)
           /\ tag' = Append(tag, t)
           /\ next' = next + 1
           /\ UNCHANGED <<word, failed>>

\* Variant: the word replaces the last entry instead of being appended.
AddWord_overwrite(w) ==
  IF ~(StackSize > 1)
  THEN Abort
  ELSE /\ word' = IF word = <<>> THEN <<w>>
                  ELSE [word EXCEPT ![Len(word)] = w]
       /\ UNCHANGED <<stack, head, label, tag, next, failed>>

AddWord(w) ==
  IF ~(StackSize > 1)
  THEN Abort
  ELSE /\ word' = Append(word, w)
       /\ UNCHANGED <<stack, head, label, tag, next, failed>>

\* ------------------------------------------------------ transition system
PerformCollapse ==
  IF debug /\ ~IsAllowedCollapse THEN Abort ELSE Pop

PerformAdd(l, t) ==
  IF debug /\ ~IsAllowedAdd THEN Abort ELSE Add(l, t)

PerformWord(w) ==
  IF debug /\ ~IsAllowedWord THEN Abort ELSE AddWord(w)

PerformActionWithoutHistory(action) ==
  CASE ActionType(action) = COLLAPSE -> PerformCollapse
    [] ActionType(action) = ADD      -> PerformAdd(Label(action), Tag(action))
    [] ActionType(action) = WORD     -> PerformWord(Word(action))

\* Variant: the child of the new arc is taken one below the top.
ChildIndex_below(action) ==
  CASE ActionType(action) = COLLAPSE -> -1
    [] ActionType(action) = ADD      -> Stack(1)
    [] ActionType(action) = WORD     -> -1

ChildIndex(action) ==
  CASE ActionType(action) = COLLAPSE -> -1
    [] ActionType(action) = ADD      -> Stack(0)
    [] ActionType(action) = WORD     -> -1

ParentIndex(action) ==
  CASE ActionType(action) = COLLAPSE -> -1
    [] ActionType(action) = ADD      -> Stack(1)
    [] ActionType(action) = WORD     -> -1

\* The end-to-end scenario of the specification, as encoded actions.
Scenario ==
  << AddAction(0, 0), WordAction(0), AddAction(1, 0), WordAction(1),
     CollapseAction, CollapseAction >>

\* ------------------------------------------------------------ the machine
\* GeneratorState constructor with a transition state: next_ = 0, empty
\* arrays, then GeneratorTransitionState::Init pushes the root.
TransitionStateInit == <<-1>>

\* No clone has been made yet.
NoClone ==
  [exists |-> FALSE, stack |-> <<>>, head |-> <<>>, label |-> <<>>,
   tag |-> <<>>, word |-> <<>>, next |-> 0, keep_history |-> FALSE,
   history |-> <<>>, aliases |-> {}, current |-> "source", steps |-> 0]

\* No wrapper.
NoWrapper ==
  [exists |-> FALSE, score |-> 0, current_beam_index |-> 0,
   parent_beam_index |-> 0, step_for_token |-> <<>>,
   parent_for_token |-> <<>>, parent_step_for_token |-> <<>>]

\* No parent hypothesis has been passed to Init yet.
NoParent == [score |-> 0, current_beam_index |-> 0, parent_beam_index |-> 0]

\* A state together with the wrapper around it, as one value.
ObjectOf(st, hd, lb, tg, wd, nx, w) ==
  [stack |-> st, head |-> hd, label |-> lb, tag |-> tg, word |-> wd,
   next |-> nx, w |-> w, dead |-> FALSE, legal |-> TRUE]

\* No fork has happened yet.
NoFork ==
  [source |-> ObjectOf(<<>>, <<>>, <<>>, <<>>, <<>>, 0, NoWrapper),
   clone |-> ObjectOf(<<>>, <<>>, <<>>, <<>>, <<>>, 0, NoWrapper)]

\* A call one execution context makes on its own copy.
Call(kind, a, b, c) == [kind |-> kind, a |-> a, b |-> b, c |-> c]

\* No wrapper has been built yet.
NoBeam ==
  [source |-> NoWrapper, clone |-> NoWrapper, op |-> "none",
   target |-> "source", parent |-> NoParent, from |-> "none",
   attached |-> {}, steps |-> 0, fork |-> NoFork,
   trace |-> [source |-> <<>>, clone |-> <<>>]]

\* CreateDocument has not been called yet.
NoDocument ==
  [made |-> FALSE, rewrite_root_labels |-> FALSE, num_tokens |-> 0,
   tokens |-> <<>>]

\* No other transition system has been built yet.
NoCodec ==
  [built |-> FALSE, L |-> 0, T |-> 0, W |-> 0, op |-> "none", action |-> 0,
   kind |-> 0, label |-> 0, tag |-> 0, word |-> 0, error |-> FALSE]

Init ==
  /\ stack = TransitionStateInit
  /\ head = <<>>
  /\ label = <<>>
  /\ tag = <<>>
  /\ word = <<>>
  /\ next = 0
  /\ failed = FALSE
  /\ debug \in BOOLEAN
  /\ last = [op |-> "Init", action |-> -1, allowed |-> TRUE]
  /\ onlyLegal = TRUE
  /\ noDirect = TRUE
  /\ scen = 0
  /\ collapsed = {}
  /\ keep_history = FALSE
  /\ history = <<>>
  /\ clone = NoClone
  /\ codec = NoCodec
  /\ beam = NoBeam
  /\ document = NoDocument

\* The driver applies an action of the transition system.
Apply(action) ==
  /\ ~failed
  /\ (ActionType(action) = ADD => next < MaxTokens)
  /\ (ActionType(action) = WORD => Len(word) < MaxTokens)
  /\ PerformActionWithoutHistory(action)
  /\ last' = [op |-> "Perform", action |-> action,
              allowed |-> IsAllowedAction(action)]
  /\ onlyLegal' = (onlyLegal /\ IsAllowedAction(action))
  /\ scen' = IF scen >= 0 /\ scen < Len(Scenario) /\ action = Scenario[scen + 1]
             THEN scen + 1 ELSE -1
  /\ collapsed' = IF ActionType(action) = COLLAPSE /\ Len(stack') < Len(stack)
                  THEN collapsed \cup {PopResult} ELSE collapsed
  /\ UNCHANGED <<debug, noDirect>>
  /\ UNCHANGED aux

\* The driver calls GeneratorState::Push itself.
DirectPush(index) ==
  /\ ~failed
  /\ StackSize < MaxStack
  /\ Push(index)
  /\ last' = [op |-> "Push", action |-> index, allowed |-> TRUE]
  /\ noDirect' = FALSE
  /\ scen' = -1
  /\ UNCHANGED <<debug, onlyLegal, collapsed>>
  /\ UNCHANGED aux

\* The driver calls GeneratorState::Pop itself.
DirectPop ==
  /\ ~failed
  /\ Pop
  /\ last' = [op |-> "Pop", action |-> -1, allowed |-> TRUE]
  /\ noDirect' = FALSE
  /\ scen' = -1
  /\ UNCHANGED <<debug, onlyLegal, collapsed>>
  /\ UNCHANGED aux

Next ==
  \/ \E action \in ActionDomain : Apply(action)
  \/ \E index \in PushDomain : DirectPush(index)
  \/ DirectPop

Spec == Init /\ [][Next]_vars

\* ------------------------------------------------------------- cloning
\* Everything of a run but the members that Clone copies and the clone.
ghost == <<failed, debug, last, onlyLegal, noDirect, scen, collapsed, codec,
          document>>

\* The object the constructor call inside Clone builds: next_ is 0, the
\* copied transition state pushes the root, history tracking is off; the
\* sentence is the one the source points to.
Constructed ==
  [exists |-> TRUE, stack |-> TransitionStateInit, head |-> <<>>,
   label |-> <<>>, tag |-> <<>>, word |-> <<>>, next |-> 0,
   keep_history |-> FALSE, history |-> <<>>, aliases |-> {"sentence"},
   current |-> "source", steps |-> 0]

\* Variant: the source's stack is appended to the constructed one.
Clone_append ==
  [Constructed EXCEPT
     !.next = next,
     !.stack = @ \o stack,
     !.head = head,
     !.label = label,
     !.tag = tag,
     !.word = word,
     !.keep_history = keep_history,
     !.history = history]

\* Variant: the clone refers to the source's vectors instead of copying.
Clone_shallow ==
  [Constructed EXCEPT
     !.next = next,
     !.stack = stack,
     !.head = head,
     !.label = label,
     !.tag = tag,
     !.word = word,
     !.keep_history = keep_history,
     !.history = history,
     !.aliases = @ \cup {"stack", "head", "label", "tag", "word"}]

\* GeneratorState::Clone: construct, then assign every member.
Clone ==
  [Constructed EXCEPT
     !.next = next,
     !.stack = stack,
     !.head = head,
     !.label = label,
     !.tag = tag,
     !.word = word,
     !.keep_history = keep_history,
     !.history = history]

\* The members of the object the driver is not operating on; a member held
\* in shared storage is read through to the object in hand.
OtherStack == IF "stack" \in clone.aliases THEN stack ELSE clone.stack

OtherHead == IF "head" \in clone.aliases THEN head ELSE clone.head

OtherLabel == IF "label" \in clone.aliases THEN label ELSE clone.label

OtherTag == IF "tag" \in clone.aliases THEN tag ELSE clone.tag

OtherWord == IF "word" \in clone.aliases THEN word ELSE clone.word

OtherNext == clone.next

OtherData ==
  <<OtherStack, OtherHead, OtherLabel, OtherTag, OtherWord, OtherNext>>

\* Actions the driver may record in the history.
HistoryDomain == {CollapseAction, WordAction(0)}

\* set_keep_history(true).
SetKeepHistory ==
  /\ ~failed
  /\ ~clone.exists
  /\ ~keep_history
  /\ keep_history' = TRUE
  /\ UNCHANGED <<data, history, clone, ghost, beam>>

\* mutable_history()->push_back(action) on a state that tracks history.
RecordHistory(action) ==
  /\ ~failed
  /\ ~clone.exists
  /\ keep_history
  /\ Len(history) < MaxHistory
  /\ history' = Append(history, action)
  /\ UNCHANGED <<data, keep_history, clone, ghost, beam>>

\* clone = state.Clone().
DoClone ==
  /\ ~failed
  /\ ~clone.exists
  /\ clone' = Clone
  /\ UNCHANGED <<data, keep_history, history, ghost, beam>>

\* The driver turns to the other of the two objects.
Switch ==
  /\ ~failed
  /\ clone.exists
  /\ stack' = OtherStack
  /\ head' = OtherHead
  /\ label' = OtherLabel
  /\ tag' = OtherTag
  /\ word' = OtherWord
  /\ next' = OtherNext
  /\ keep_history' = clone.keep_history
  /\ history' = clone.history
  /\ clone' = [clone EXCEPT
                 !.stack = stack, !.head = head, !.label = label,
                 !.tag = tag, !.word = word, !.next = next,
                 !.keep_history = keep_history, !.history = history,
                 !.current = IF @ = "source" THEN "clone" ELSE "source"]
  /\ UNCHANGED <<ghost, beam>>

\* An action applied to the object in hand after IsAllowedAction said yes.
ApplyLegal(action) ==
  /\ ~failed
  /\ IsAllowedAction(action)
  /\ (ActionType(action) = ADD => next < MaxCloneTokens)
  /\ (clone.exists => clone.steps < MaxCloneSteps)
  /\ PerformActionWithoutHistory(action)
  /\ last' = [op |-> "Perform", action |-> action, allowed |-> TRUE]
  /\ clone' = IF clone.exists THEN [clone EXCEPT !.steps = @ + 1] ELSE clone
  /\ UNCHANGED <<debug, onlyLegal, noDirect, scen, collapsed>>
  /\ UNCHANGED <<keep_history, history, codec, beam, document>>

\* The driver builds up the stack of the source before cloning it.
Prepare(index) ==
  /\ ~clone.exists
  /\ StackSize < MaxCloneStack
  /\ DirectPush(index)

NextClone ==
  \/ \E index \in PushDomain : Prepare(index)
  \/ SetKeepHistory
  \/ \E action \in HistoryDomain : RecordHistory(action)
  \/ DoClone
  \/ Switch
  \/ \E action \in ActionDomain : ApplyLegal(action)

SpecClone == Init /\ [][NextClone]_vars

\* -------------------------------------------------- the beam wrappers
\* Token counts of the sentence the wrappers are built for.
TokenSizeDomain == {1}

\* Scores and beam slots the beam manager hands in.
ScoreDomain == {0, 1}

BeamDomain == {0, 1}

\* Generation steps the driver records for a token.
StepDomain == {0}

\* The hypotheses Init may be given as parent: each sits in another slot
\* than its own parent did.
ParentDomain ==
  { [score |-> 1, current_beam_index |-> 1, parent_beam_index |-> 0],
    [score |-> 0, current_beam_index |-> 0, parent_beam_index |-> 1] }

\* A provenance array after resize(token_size, -1).
Unset(size) == [t \in 1 .. size |-> -1]

\* dragnn GeneratorTransitionState constructor.
WrapperConstructed(size) ==
  [exists |-> TRUE, score |-> 0, current_beam_index |-> -1,
   parent_beam_index |-> 0, step_for_token |-> Unset(size),
   parent_for_token |-> Unset(size), parent_step_for_token |-> Unset(size)]

\* Variant: Init takes the parent's beam slot but not its score.
WrapperInit_noscore(w, parent) ==
  [w EXCEPT !.parent_beam_index = parent.current_beam_index]

\* Variant: Init also takes over the parent's beam slot as its own.
WrapperInit_slot(w, parent) ==
  [w EXCEPT
     !.score = parent.score,
     !.current_beam_index = parent.current_beam_index,
     !.parent_beam_index = parent.current_beam_index]

\* Init(parent): score_ = parent.GetScore();
\* parent_beam_index_ = parent.GetBeamIndex().
WrapperInit(w, parent) ==
  [w EXCEPT
     !.score = parent.score,
     !.parent_beam_index = parent.current_beam_index]

\* Variant: the clone keeps the beam slot its constructor set.
WrapperClone_nobeam(w) ==
  [WrapperConstructed(Len(w.step_for_token)) EXCEPT
     !.score = w.score,
     !.parent_beam_index = w.parent_beam_index,
     !.step_for_token = w.step_for_token,
     !.parent_step_for_token = w.parent_step_for_token,
     !.parent_for_token = w.parent_for_token]

\* The wrapper part of Clone: construct for the same sentence, then copy.
WrapperClone(w) ==
  [WrapperConstructed(Len(w.step_for_token)) EXCEPT
     !.score = w.score,
     !.current_beam_index = w.current_beam_index,
     !.parent_beam_index = w.parent_beam_index,
     !.step_for_token = w.step_for_token,
     !.parent_step_for_token = w.parent_step_for_token,
     !.parent_for_token = w.parent_for_token]

\* Variant: the setter writes the parent's slot.
SetBeamIndex_parent(w, index) == [w EXCEPT !.parent_beam_index = index]

SetBeamIndex(w, index) == [w EXCEPT !.current_beam_index = index]

SetScore(w, score) == [w EXCEPT !.score = score]

\* The beam-search driver records the step that produced token t.
SetStepForToken(w, t, step) == [w EXCEPT !.step_for_token[t] = step]

\* The wrapper the driver has in hand, and the other one.
Hand == clone.current

Other == IF clone.current = "source" THEN "clone" ELSE "source"

\* After the fork, the calls made on each copy, in the order made.
Logged(trace, call) ==
  IF beam.clone.exists THEN [trace EXCEPT ![Hand] = Append(@, call)]
  ELSE trace

\* The driver prepares the stack of the state before wrapping it.
PrepareWrapped(index) ==
  /\ ~beam.source.exists
  /\ Prepare(index)

\* A wrapper is built around the state.
Wrap(size) ==
  /\ ~failed
  /\ ~beam.source.exists
  /\ beam' = [beam EXCEPT !.source = WrapperConstructed(size), !.op = "Wrap",
                          !.target = "source"]
  /\ UNCHANGED <<data, keep_history, history, clone, ghost>>

\* wrapper.Init(parent) on the wrapper in hand.
InitFromParent(parent) ==
  /\ ~failed
  /\ beam[Hand].exists
  /\ beam.steps < MaxWrapperSteps
  /\ beam' = [beam EXCEPT
                ![Hand] = WrapperInit(@, parent),
                !.op = "Init", !.target = Hand, !.parent = parent,
                !.from = "hypothesis",
                !.trace = Logged(@, Call("Init", parent.score,
                                         parent.current_beam_index,
                                         parent.parent_beam_index)),
                !.attached = @ \cup {Hand}, !.steps = @ + 1]
  /\ UNCHANGED <<data, keep_history, history, clone, ghost>>

\* What Init reads of a wrapper passed as parent: GetScore, GetBeamIndex
\* (and ParentBeamIndex, which it does not read).
AsParent(w) ==
  [score |-> w.score, current_beam_index |-> w.current_beam_index,
   parent_beam_index |-> w.parent_beam_index]

\* wrapper.Init(other) on the wrapper in hand, with the other wrapper of
\* the beam as parent.
InitFromWrapper ==
  /\ ~failed
  /\ beam[Hand].exists
  /\ beam[Other].exists
  /\ beam.steps < MaxWrapperSteps
  /\ beam' = [beam EXCEPT
                ![Hand] = WrapperInit(@, AsParent(beam[Other])),
                !.op = "Init", !.target = Hand,
                !.parent = AsParent(beam[Other]), !.from = "wrapper",
                !.trace = Logged(@, Call("Init", beam[Other].score,
                                         beam[Other].current_beam_index,
                                         beam[Other].parent_beam_index)),
                !.attached = @ \cup {Hand}, !.steps = @ + 1]
  /\ UNCHANGED <<data, keep_history, history, clone, ghost>>

DoSetBeamIndex(index) ==
  /\ ~failed
  /\ beam[Hand].exists
  /\ beam.steps < MaxWrapperSteps
  /\ beam' = [beam EXCEPT
                ![Hand] = SetBeamIndex(@, index),
                !.op = "SetBeamIndex", !.target = Hand, !.steps = @ + 1,
                !.trace = Logged(@, Call("SetBeamIndex", index, 0, 0))]
  /\ UNCHANGED <<data, keep_history, history, clone, ghost>>

DoSetScore(score) ==
  /\ ~failed
  /\ beam[Hand].exists
  /\ beam.steps < MaxWrapperSteps
  /\ beam' = [beam EXCEPT
                ![Hand] = SetScore(@, score),
                !.op = "SetScore", !.target = Hand, !.steps = @ + 1,
                !.trace = Logged(@, Call("SetScore", score, 0, 0))]
  /\ UNCHANGED <<data, keep_history, history, clone, ghost>>

DoSetStepForToken(t, step) ==
  /\ ~failed
  /\ beam[Hand].exists
  /\ t <= Len(beam[Hand].step_for_token)
  /\ beam.steps < MaxWrapperSteps
  /\ beam' = [beam EXCEPT
                ![Hand] = SetStepForToken(@, t, step),
                !.op = "SetStepForToken", !.target = Hand, !.steps = @ + 1,
                !.trace = Logged(@, Call("SetStepForToken", t, step, 0))]
  /\ UNCHANGED <<data, keep_history, history, clone, ghost>>

\* wrapper.Clone(): clones the wrapped state and copies the bookkeeping.
DoWrapperClone ==
  /\ ~failed
  /\ beam.source.exists
  /\ ~clone.exists
  /\ clone' = Clone
  /\ beam' = [beam EXCEPT
                !.clone = WrapperClone(beam.source),
                !.op = "Clone", !.target = "source",
                !.fork = [source |-> ObjectOf(stack, head, label, tag, word,
                                              next, beam.source),
                          clone |-> ObjectOf(Clone.stack, Clone.head,
                                             Clone.label, Clone.tag,
                                             Clone.word, Clone.next,
                                             WrapperClone(beam.source))]]
  /\ UNCHANGED <<data, keep_history, history, ghost>>

\* An allowed action applied to the state wrapped by the wrapper in hand.
ActOnWrapped(action) ==
  /\ ~failed
  /\ beam.source.exists
  /\ beam.steps < MaxWrapperSteps
  /\ IsAllowedAction(action)
  /\ PerformActionWithoutHistory(action)
  /\ last' = [op |-> "Perform", action |-> action, allowed |-> TRUE]
  /\ beam' = [beam EXCEPT !.op = "Perform", !.target = Hand, !.steps = @ + 1,
                          !.trace = Logged(@, Call("Perform", action, 0, 0))]
  /\ UNCHANGED <<debug, onlyLegal, noDirect, scen, collapsed>>
  /\ UNCHANGED <<keep_history, history, clone, codec, document>>

\* The driver turns to the other wrapper.
SwitchWrapper ==
  /\ beam.clone.exists
  /\ Switch

NextWrapper ==
  \/ \E index \in PushDomain : PrepareWrapped(index)
  \/ \E size \in TokenSizeDomain : Wrap(size)
  \/ \E parent \in ParentDomain : InitFromParent(parent)
  \/ InitFromWrapper
  \/ \E index \in BeamDomain : DoSetBeamIndex(index)
  \/ \E score \in ScoreDomain : DoSetScore(score)
  \/ \E t \in TokenSizeDomain : \E step \in StepDomain :
       DoSetStepForToken(t, step)
  \/ DoWrapperClone
  \/ \E action \in ActionDomain : ActOnWrapped(action)
  \/ SwitchWrapper

SpecWrapper == Init /\ [][NextWrapper]_vars

\* ------------------------------------------------- the codec on its own
\* Everything but the codec under test.
object == <<stack, head, label, tag, word, next, failed, debug, last,
            onlyLegal, noDirect, scen, collapsed, keep_history, history,
            clone, beam, document>>

VocabDomain == 1 .. MaxVocab

\* GeneratorTransitionSystem(num_labels, num_tags, num_words).
Configure(L, T, W) ==
  /\ ~codec.built
  /\ codec' = [NoCodec EXCEPT !.built = TRUE, !.L = L, !.T = T, !.W = W]
  /\ UNCHANGED object

\* ActionType / Label / Tag / Word applied to an integer, in range or one
\* off either end.  None of them has a failure path.
Decode(action) ==
  /\ codec.built
  /\ codec' = [codec EXCEPT
                 !.op = "decode",
                 !.action = action,
                 !.kind = ActionTypeFor(codec.L, codec.T, action),
                 !.label = LabelFor(codec.L, codec.T, action),
                 !.tag = TagFor(codec.L, codec.T, action),
                 !.word = WordFor(codec.L, codec.T, action),
                 !.error = FALSE]
  /\ UNCHANGED object

\* CollapseAction().
EncodeCollapse ==
  /\ codec.built
  /\ codec' = [codec EXCEPT
                 !.op = "encode", !.action = CollapseAction,
                 !.kind = COLLAPSE, !.label = -1, !.tag = -1, !.word = -1,
                 !.error = FALSE]
  /\ UNCHANGED object

\* AddAction(label, tag) for a label and tag of the vocabulary.
EncodeAdd(l, t) ==
  /\ codec.built
  /\ l < codec.L
  /\ t < codec.T
  /\ codec' = [codec EXCEPT
                 !.op = "encode", !.action = AddActionFor(codec.L, l, t),
                 !.kind = ADD, !.label = l, !.tag = t, !.word = -1,
                 !.error = FALSE]
  /\ UNCHANGED object

\* WordAction(word) for a word of the vocabulary.
EncodeWord(w) ==
  /\ codec.built
  /\ w < codec.W
  /\ codec' = [codec EXCEPT
                 !.op = "encode",
                 !.action = WordActionFor(codec.L, codec.T, w),
                 !.kind = WORD, !.label = -1, !.tag = -1, !.word = w,
                 !.error = FALSE]
  /\ UNCHANGED object

NextCodec ==
  \/ \E L \in VocabDomain : \E T \in VocabDomain : \E W \in VocabDomain :
       Configure(L, T, W)
  \/ \E action \in -1 .. NumActionsFor(MaxVocab, MaxVocab, MaxVocab) :
       /\ action <= NumActionsFor(codec.L, codec.T, codec.W)
       /\ Decode(action)
  \/ EncodeCollapse
  \/ \E l \in 0 .. (MaxVocab - 1) : \E t \in 0 .. (MaxVocab - 1) :
       EncodeAdd(l, t)
  \/ \E w \in 0 .. (MaxVocab - 1) : EncodeWord(w)

SpecCodec == Init /\ [][NextCodec]_vars

\* ---------------------------------------------------------------- helpers
LabelDomain == 0 .. (num_labels - 1)
TagDomain == 0 .. (num_tags - 1)
WordDomain == 0 .. (num_words - 1)

\* The step being taken performs `action` through the transition system.
Performs(action) == last'.op = "Perform" /\ last'.action = action

\* The root sentinel is the bottom of the stack and occurs nowhere else.
RootOnlyAtBottom ==
  /\ Len(stack) >= 1
  /\ stack[1] = -1
  /\ \A i \in 2 .. Len(stack) : stack[i] # -1

\* Only allowed actions have been performed since Init, and nothing else.
LegalRun == noDirect /\ onlyLegal

\* ------------------------------------------------------------------ claims

\* C1: COLLAPSE is allowed iff no word is missing and the stack depth is
\* above 2, ADD iff no word is missing, WORD iff a word is missing, and
\* IsAllowedAction(a) is the predicate of the kind a decodes to.
C1_Legality ==
  /\ IsAllowedCollapse = (Len(head) <= Len(word) /\ Len(stack) > 2)
  /\ IsAllowedAdd = (Len(head) <= Len(word))
  /\ IsAllowedWord = (Len(head) > Len(word))
  /\ IsAllowedAction(CollapseAction)
       = (Len(head) <= Len(word) /\ Len(stack) > 2)
  /\ \A l \in LabelDomain : \A t \in TagDomain :
       IsAllowedAction(AddAction(l, t)) = (Len(head) <= Len(word))
  /\ \A w \in WordDomain :
       IsAllowedAction(WordAction(w)) = (Len(head) > Len(word))

\* A state of depth 2 with every word filled in: COLLAPSE is refused by the
\* depth floor alone, ADD is allowed, WORD is not.
C1_Witness ==
  /\ ~failed
  /\ Len(stack) = 2
  /\ Len(head) = 1
  /\ Len(word) = 1
  /\ ~IsAllowedAction(CollapseAction)
  /\ IsAllowedAction(AddAction(0, 0))
  /\ ~IsAllowedAction(WordAction(0))

\* C2: as long as every performed action was allowed, head, label and tag
\* have the same length, word is as long as head or one shorter, and next
\* is the length of head.
C2_Lengths ==
  onlyLegal =>
    /\ Len(head) = Len(label)
    /\ Len(label) = Len(tag)
    /\ (Len(word) = Len(head) \/ Len(word) = Len(head) - 1)
    /\ next = Len(head)

\* Two tokens created by allowed actions, the second still without a word.
C2_Witness ==
  /\ onlyLegal
  /\ ~failed
  /\ last.op = "Perform"
  /\ ActionType(last.action) = ADD
  /\ Len(head) = 2
  /\ Len(word) = 1

\* C3: right after Init the stack is exactly <<-1>>; in every state reached
\* from Init by allowed actions alone the root is the bottom of the stack and
\* occurs nowhere else; and an allowed action never removes the root from the
\* bottom nor pushes a second root.
C3_RootAtBottom ==
  /\ [](last.op = "Init" => stack = <<-1>>)
  /\ [](LegalRun => RootOnlyAtBottom)
  /\ [][(RootOnlyAtBottom /\ last'.op = "Perform" /\ last'.allowed)
          => RootOnlyAtBottom']_vars

\* An allowed COLLAPSE has just popped a token off a stack that still has the
\* root, and only the root, at its bottom.
C3_Witness ==
  /\ ~failed
  /\ last.op = "Perform"
  /\ last.allowed
  /\ ActionType(last.action) = COLLAPSE
  /\ Len(stack) = 2
  /\ RootOnlyAtBottom

\* C4: if, from Init on, every action was applied only when IsAllowedAction
\* held, no apply violates a precondition (no CHECK fails).
C4_LegalNeverFails == LegalRun => ~failed

\* C5: performing an action whose legality predicate is false fails, and
\* leaves stack, head, label, tag, word and next as they were.
C5_IllegalFails ==
  [][(last'.op = "Perform" /\ ~last'.allowed)
       => (failed' /\ UNCHANGED data)]_vars

\* C6: from Init, Add(0,0), AddWord(0), Add(1,0), AddWord(1), Collapse,
\* Collapse runs without failure and ends with head = [-1,0], label = [0,1],
\* word = [0,1], the stack holding only the root, and IsFinalState true.
C6_Scenario ==
  /\ (scen >= 1 => ~failed)
  /\ (scen = Len(Scenario) =>
        /\ head = <<-1, 0>>
        /\ label = <<0, 1>>
        /\ word = <<0, 1>>
        /\ stack = <<-1>>
        /\ IsFinalState)

\* C7: IsFinalState and IsDeterministicState are both true exactly when the
\* stack depth is below 2, hence equal.
C7_FinalDeterministic ==
  /\ IsFinalState = (Len(stack) < 2)
  /\ IsDeterministicState = (Len(stack) < 2)
  /\ IsFinalState = IsDeterministicState

\* A stack that lost its root: depth 0 after a COLLAPSE, final and
\* deterministic.
C7_Witness ==
  /\ ~failed
  /\ last.op = "Perform"
  /\ ActionType(last.action) = COLLAPSE
  /\ Len(stack) = 0
  /\ IsFinalState
  /\ IsDeterministicState

\* C8: IsFinalState is true exactly when no action of [0, NumActions) is
\* allowed.
C8_FinalIffNoAction ==
  IsFinalState = (\A a \in ActionDomain : ~IsAllowedAction(a))

\* C9: Add(label, tag) run at stack depth above 1 creates token p = next
\* whose head is the old stack top, appends label and tag, pushes p (so
\* Stack(0) = p and Stack(1) = the old top), adds exactly 1 to next, and
\* leaves word and all earlier entries alone.
C9_Add ==
  [][\A l \in LabelDomain : \A t \in TagDomain :
       (/\ Performs(AddAction(l, t))
        /\ StackSize > 1
        /\ (IsAllowedAdd \/ ~debug))
       => (/\ ~failed'
           /\ Len(head') = Len(head) + 1
           /\ head'[next + 1] = Stack(0)
           /\ label'[next + 1] = l
           /\ tag'[next + 1] = t
           /\ Stack(0)' = next
           /\ Stack(1)' = Stack(0)
           /\ Len(stack') = Len(stack) + 1
           /\ SubSeq(stack', 1, Len(stack)) = stack
           /\ next' = next + 1
           /\ word' = word
           /\ SubSeq(head', 1, Len(head)) = head
           /\ label' = Append(label, l)
           /\ tag' = Append(tag, t))]_vars

\* Add(1, 0) has just created token 1 under token 0.
C9_Witness ==
  /\ ~failed
  /\ last.op = "Perform"
  /\ last.action = AddAction(1, 0)
  /\ Len(head) = 2
  /\ head[2] = 0
  /\ label[2] = 1
  /\ Stack(0) = 1
  /\ Stack(1) = 0
  /\ next = 2

\* C10: when only allowed actions have been performed, a WORD(w) performed
\* right after the ADD that created the token (the one place an allowed WORD
\* occurs in a run of allowed actions) is allowed, does not fail, and gives w to the first item of the stack: word[Stack(0)] = w, word is as
\* long as head, and stack, head, label, tag and next are unchanged.
C10_Word ==
  [][\A w \in WordDomain :
       (/\ Performs(WordAction(w))
        /\ last.op = "Perform"
        /\ ActionType(last.action) = ADD
        /\ onlyLegal
        /\ ~failed)
       => (/\ last'.allowed
           /\ ~failed'
           /\ Stack(0) >= 0
           /\ word'[Stack(0)' + 1] = w
           /\ Len(word') = Len(head')
           /\ Len(word') = Len(word) + 1
           /\ SubSeq(word', 1, Len(word)) = word
           /\ UNCHANGED <<stack, head, label, tag, next>>)]_vars

\* WORD(1) has just filled in token 1, the top of the stack.
C10_Witness ==
  /\ ~failed
  /\ onlyLegal
  /\ last.op = "Perform"
  /\ last.action = WordAction(1)
  /\ last.allowed
  /\ Stack(0) = 1
  /\ Len(word) = 2
  /\ Len(head) = 2
  /\ word[2] = 1

\* a is a prefix of b
IsPrefix(a, b) == Len(a) <= Len(b) /\ SubSeq(b, 1, Len(a)) = a

\* C11: an allowed COLLAPSE pops exactly the top element and returns it,
\* lowers the depth by 1 so that the old second element is the new top, and
\* leaves head, label, tag, word and next unchanged.
C11_Collapse ==
  [][(Performs(CollapseAction) /\ last'.allowed)
       => (/\ ~failed'
           /\ Len(stack') = Len(stack) - 1
           /\ stack' \o <<Stack(0)>> = stack
           /\ Stack(0)' = Stack(1)
           /\ PopResult = Stack(0)
           /\ collapsed' = collapsed \cup {Stack(0)}
           /\ UNCHANGED <<head, label, tag, word, next>>)]_vars

\* An allowed COLLAPSE has just popped token 1; its parent, token 0, is the
\* top again.
C11_Witness ==
  /\ ~failed
  /\ onlyLegal
  /\ last.op = "Perform"
  /\ last.action = CollapseAction
  /\ 1 \in collapsed
  /\ Len(head) = 2
  /\ head[2] = 0
  /\ Stack(0) = 0
  /\ Len(stack) = 3

\* C12: while only allowed actions are performed, MissingWord is true right
\* after every Add and false right after the AddWord that follows it; and
\* COLLAPSE is not allowed in any state where MissingWord is true.
C12_MissingWordLifecycle ==
  /\ [][\A l \in LabelDomain : \A t \in TagDomain :
          (Performs(AddAction(l, t)) /\ onlyLegal' /\ ~failed')
          => MissingWord']_vars
  /\ [][\A w \in WordDomain :
          (Performs(WordAction(w)) /\ onlyLegal' /\ ~failed')
          => ~MissingWord']_vars
  /\ [](MissingWord => (~IsAllowedCollapse /\ ~IsAllowedAction(CollapseAction)))

\* The first token has just received its word, at a depth where COLLAPSE
\* is allowed again.
C12_Witness ==
  /\ ~failed
  /\ onlyLegal
  /\ last.op = "Perform"
  /\ ActionType(last.action) = WORD
  /\ Len(head) = 1
  /\ Len(word) = 1
  /\ ~MissingWord
  /\ IsAllowedCollapse

\* C13: no action changes an existing entry of head, label, tag or word
\* (the arrays only grow at the end); in particular the entries of a token
\* that COLLAPSE has removed from the stack stay as they are.
C13_Finalization ==
  [][/\ IsPrefix(head, head')
     /\ IsPrefix(label, label')
     /\ IsPrefix(tag, tag')
     /\ IsPrefix(word, word')
     /\ \A i \in collapsed :
          /\ (i >= 0 /\ i < Len(head)) =>
               /\ head'[i + 1] = head[i + 1]
               /\ label'[i + 1] = label[i + 1]
               /\ tag'[i + 1] = tag[i + 1]
          /\ (i >= 0 /\ i < Len(word)) => word'[i + 1] = word[i + 1]]_vars

\* Token 0 was collapsed, and afterwards token 1 was created and given a
\* word different from token 0's.
C13_Witness ==
  /\ ~failed
  /\ onlyLegal
  /\ last.op = "Perform"
  /\ ActionType(last.action) = WORD
  /\ 0 \in collapsed
  /\ Len(head) = 2
  /\ Len(word) = 2
  /\ word[1] # word[2]
  /\ Stack(0) = 1

\* ----------------------------------------------------------- clone claims
\* C14: once the clone exists, a legal action applied to either object
\* leaves stack, head, label, tag, word and next of the other one unchanged.
C14_CloneIndependence ==
  [][(clone.exists /\ clone'.exists /\ clone'.current = clone.current)
       => OtherData' = OtherData]_vars

\* Legal actions have changed the clone, and the source differs from it.
C14_Witness ==
  /\ clone.exists
  /\ clone.current = "clone"
  /\ ~failed
  /\ last.op = "Perform"
  /\ last.allowed
  /\ Len(head) > Len(OtherHead)
  /\ Len(stack) # Len(OtherStack)

\* C15: the result of Clone() has stack, head, label, tag, word, next,
\* history and the history flag equal to the source's at that moment, the
\* stack not being one longer for the constructor's root push, and Clone
\* leaves the source unchanged.
C15_CloneFidelity ==
  [][(~clone.exists /\ clone'.exists)
       => /\ OtherData' = data
          /\ clone'.keep_history = keep_history
          /\ clone'.history = history
          /\ Len(OtherStack') = Len(stack)
          /\ UNCHANGED <<data, keep_history, history>>]_vars

\* A state with a token, a non-trivial stack and a recorded history has
\* just been cloned.
C15_Witness ==
  /\ clone.exists
  /\ clone.current = "source"
  /\ clone.stack = stack
  /\ Len(stack) = 3
  /\ Len(head) = 1
  /\ clone.head = head
  /\ keep_history
  /\ clone.keep_history
  /\ Len(history) = 1
  /\ clone.history = history

\* ------------------------------------------------------ navigation claims
\* The generated positions.
Positions == 0 .. (Len(head) - 1)

\* The generated positions whose head is x.
ChildrenOf(x) == {i \in Positions : head[i + 1] = x}

\* The positions left (right) of x with the same head as x.
LeftSiblingsOf(x) == {j \in Positions : j < x /\ head[j + 1] = head[x + 1]}
RightSiblingsOf(x) == {j \in Positions : j > x /\ head[j + 1] = head[x + 1]}

LevelDomain == 1 .. MaxLevels

\* The least element of a non-empty set of integers.
Least(S) == CHOOSE i \in S : \A j \in S : i <= j

\* C19 as stated: Parent(root, n) for n > 0, LeftmostChild past the last
\* child and LeftSibling / RightSibling past the first / last sibling all
\* return the same not-found sentinel -2.
C19_Original ==
  \A n \in LevelDomain :
    /\ Parent(-1, n) = -2
    /\ \A x \in {-1} \cup Positions :
         ChildrenOf(x) = {} => LeftmostChild(x, n) = -2
    /\ \A x \in Positions :
         /\ n > Cardinality(LeftSiblingsOf(x)) => LeftSibling(x, n) = -2
         /\ n > Cardinality(RightSiblingsOf(x)) => RightSibling(x, n) = -2

\* C19 amended: Parent(root, n) is the root sentinel -1 for every n;
\* LeftmostChild of a position without children and LeftSibling /
\* RightSibling past the first / last sibling return -2, which is neither
\* the root sentinel nor a position.
C19_Sentinel ==
  \A n \in LevelDomain :
    /\ Parent(-1, n) = -1
    /\ \A x \in {-1} \cup Positions :
         ChildrenOf(x) = {} => LeftmostChild(x, n) = -2
    /\ \A x \in Positions :
         /\ n > Cardinality(LeftSiblingsOf(x)) => LeftSibling(x, n) = -2
         /\ n > Cardinality(RightSiblingsOf(x)) => RightSibling(x, n) = -2
    /\ LeftSibling(-1, n) = -2
    /\ RightSibling(-1, n) = -2
    /\ -2 \notin ({-1} \cup Positions)

\* Two siblings under the root: the second is the first's right sibling,
\* and asking further in either direction gives -2.
C19_Witness ==
  /\ ~failed
  /\ Len(head) = 2
  /\ head[1] = -1
  /\ head[2] = -1
  /\ RightSibling(0, 1) = 1
  /\ RightSibling(0, 2) = -2
  /\ LeftSibling(1, 1) = 0
  /\ LeftSibling(1, 2) = -2
  /\ Parent(1, 2) = -1
  /\ Parent(-1, 1) = -1
  /\ LeftmostChild(1, 1) = -2

\* C20: for the root and every generated position, LeftmostChild(index, 1)
\* is the lowest generated position whose head is index, and -2 only when
\* there is none; LeftmostChild(index, 2) applies it twice.
C20_LeftmostChild ==
  \A x \in {-1} \cup Positions :
    LET first == IF ChildrenOf(x) = {} THEN -2 ELSE Least(ChildrenOf(x))
    IN  /\ LeftmostChild(x, 1) = first
        /\ LeftmostChild(x, 2) =
             IF first = -2 \/ ChildrenOf(first) = {} THEN -2
             ELSE Least(ChildrenOf(first))

\* Every head lies below the position it governs, as Add leaves it when the
\* stack holds the root and generated positions only.
HeadsBelow == \A i \in Positions : head[i + 1] >= -1 /\ head[i + 1] < i

\* The greatest element of a non-empty set of integers.
Greatest(S) == CHOOSE i \in S : \A j \in S : i >= j

\* The child reached from x by descending n times to the highest child.
RECURSIVE NthRightmost(_, _)
NthRightmost(x, n) ==
  IF n = 0 THEN x
  ELSE IF ChildrenOf(x) = {} THEN -2
  ELSE NthRightmost(Greatest(ChildrenOf(x)), n - 1)

\* C21: for the root and every generated position, RightmostChild(index, 1)
\* is the highest generated position whose head is index, and -2 exactly
\* when there is none; RightmostChild(index, n) applies it n times and is
\* -2 as soon as a level has no child.
C21_RightmostChild ==
  (~failed /\ HeadsBelow) =>
    \A x \in {-1} \cup Positions :
      /\ (RightmostChild(x, 1) = -2) = (ChildrenOf(x) = {})
      /\ \A n \in LevelDomain : RightmostChild(x, n) = NthRightmost(x, n)

\* A chain root -> 0 -> 1: the rightmost grandchild of the root is 1, and 1
\* has no child.
C21_Witness ==
  /\ ~failed
  /\ head = <<-1, 0>>
  /\ RightmostChild(-1, 1) = 0
  /\ RightmostChild(-1, 2) = 1
  /\ RightmostChild(1, 1) = -2
  /\ RightmostChild(0, 2) = -2

\* The n-th sibling of x counted leftwards (rightwards) from x, -2 if
\* there are fewer than n.
NthLeftSibling(x, n) ==
  LET L == LeftSiblingsOf(x)
  IN  IF n = 0 THEN x
      ELSE IF n > Cardinality(L) THEN -2
      ELSE CHOOSE j \in L : Cardinality({k \in L : k > j}) = n - 1

NthRightSibling(x, n) ==
  LET R == RightSiblingsOf(x)
  IN  IF n = 0 THEN x
      ELSE IF n > Cardinality(R) THEN -2
      ELSE CHOOSE j \in R : Cardinality({k \in R : k < j}) = n - 1

C23_Stack ==
  ~failed =>
    /\ \A k \in -2 .. (Len(stack) + 1) :
         /\ Stack(k) # CheckFailed
         /\ Stack(k) = IF 0 <= k /\ k < Len(stack)
                       THEN stack[Len(stack) - k] ELSE -2
    /\ -2 \notin ({-1} \cup Positions)

\* Stack is asked on a stack the driver has emptied after a token was made.
C23_Witness ==
  /\ ~failed
  /\ StackEmpty
  /\ Len(head) = 1
  /\ last.op = "Pop"
  /\ Stack(0) = -2
  /\ Stack(-1) = -2

\* The values a navigation query may return for a valid position.
NavigationRange == {-2, -1} \cup Positions

\* C24: in every state the run has reached, also one that misses a word,
\* Parent, LeftmostChild, RightmostChild, LeftSibling and RightSibling,
\* asked for the root or a generated position and any n >= 0, fail no check
\* and return -2, the root or a generated position.
C24_NavigationSafe ==
  ~failed =>
    \A x \in {-1} \cup Positions : \A n \in 0 .. MaxLevels :
      /\ Parent(x, n) \in NavigationRange
      /\ LeftmostChild(x, n) \in NavigationRange
      /\ RightmostChild(x, n) \in NavigationRange
      /\ LeftSibling(x, n) \in NavigationRange
      /\ RightSibling(x, n) \in NavigationRange

\* A state reached by allowed actions that has two tokens and misses the
\* word of the second.
C24_Witness ==
  /\ ~failed
  /\ onlyLegal
  /\ last.op = "Perform"
  /\ ActionType(last.action) = ADD
  /\ MissingWord
  /\ Len(head) = 2
  /\ Parent(1, 2) \in NavigationRange
  /\ RightSibling(0, 2) = -2

\* Positions outside [-1, len(head)): below the root, the first position
\* not generated yet, and the one after it.
OutOfRange == {-2, Len(head), Len(head) + 1}

\* C25: a navigation query for a position outside [-1, len(head)) is
\* reported as an error and never answers with the root or a generated
\* position.
C25_OutOfRangeReported ==
  ~failed =>
    \A x \in OutOfRange : \A n \in LevelDomain :
      /\ Parent(x, n) = CheckFailed
      /\ LeftmostChild(x, n) = CheckFailed
      /\ RightmostChild(x, n) = CheckFailed
      /\ LeftSibling(x, n) = CheckFailed
      /\ RightSibling(x, n) = CheckFailed

\* --------------------------------------------------------- wrapper claims
\* C26 as stated: after Init(parent) the wrapper's score is the parent's
\* score and its parent_beam_index is the parent's parent_beam_index.
C26_Original ==
  beam.op = "Init" =>
    /\ beam[beam.target].score = beam.parent.score
    /\ beam[beam.target].parent_beam_index = beam.parent.parent_beam_index

\* C26 amended: after Init(parent) the wrapper's score is the parent's
\* score and its parent_beam_index is the parent's current beam index.
C26_InitFromParent ==
  beam.op = "Init" =>
    /\ beam[beam.target].score = beam.parent.score
    /\ beam[beam.target].parent_beam_index = beam.parent.current_beam_index

\* The source wrapper has just been attached to a parent with score 1 that
\* sits in slot 1 and whose own parent sat in slot 0.
C26_Witness ==
  /\ beam.op = "Init"
  /\ beam.target = "source"
  /\ beam.parent.score = 1
  /\ beam.parent.current_beam_index = 1
  /\ beam.parent.parent_beam_index = 0
  /\ beam.source.score = 1
  /\ beam.source.parent_beam_index = 1

\* C27: wrapper Clone yields a wrapper with the source's score, beam
\* indices and provenance arrays around a clone of the source's state, and
\* leaves the source as it was; afterwards whatever is called on one
\* wrapper leaves the other wrapper and its state unchanged.
C27_WrapperClone ==
  [][/\ (~beam.clone.exists /\ beam'.clone.exists) =>
          /\ beam'.clone.score = beam.source.score
          /\ beam'.clone.current_beam_index = beam.source.current_beam_index
          /\ beam'.clone.parent_beam_index = beam.source.parent_beam_index
          /\ beam'.clone.step_for_token = beam.source.step_for_token
          /\ beam'.clone.parent_for_token = beam.source.parent_for_token
          /\ beam'.clone.parent_step_for_token =
               beam.source.parent_step_for_token
          /\ OtherData' = data
          /\ beam'.source = beam.source
          /\ data' = data
     /\ (beam.clone.exists /\ beam'.clone.exists
          /\ clone'.current = clone.current) =>
          /\ beam'[Other] = beam[Other]
          /\ OtherData' = OtherData]_vars

\* A wrapper that had been given slot 0 and a recorded step was cloned;
\* the clone then took an action and a new score, the source kept its own.
C27_Witness ==
  /\ ~failed
  /\ beam.clone.exists
  /\ Hand = "clone"
  /\ beam.source.current_beam_index = 0
  /\ beam.clone.current_beam_index = 0
  /\ beam.clone.score # beam.source.score
  /\ Len(head) > Len(OtherHead)

\* C28: a wrapper's parent_beam_index changes only in Init(parent);
\* SetBeamIndex, SetScore, Clone and actions on the wrapped state leave it
\* and the three provenance arrays unchanged.
C28_ParentBeamIndex ==
  [][\A w \in {"source", "clone"} :
       (beam[w].exists /\ beam'[w].exists) =>
         /\ beam'[w].parent_beam_index # beam[w].parent_beam_index =>
              (beam'.op = "Init" /\ beam'.target = w
               /\ beam'.steps = beam.steps + 1)
         /\ (beam' # beam
             /\ beam'.op \in {"SetBeamIndex", "SetScore", "Clone", "Perform"})
              =>
              /\ beam'[w].parent_beam_index = beam[w].parent_beam_index
              /\ beam'[w].step_for_token = beam[w].step_for_token
              /\ beam'[w].parent_for_token = beam[w].parent_for_token
              /\ beam'[w].parent_step_for_token =
                   beam[w].parent_step_for_token]_vars

\* An attached wrapper with parent slot 1 has then been given slot 0.
C28_Witness ==
  /\ beam.op = "SetBeamIndex"
  /\ beam.target = "source"
  /\ "source" \in beam.attached
  /\ beam.source.parent_beam_index = 1
  /\ beam.source.current_beam_index = 0

\* C40: Init(parent) gives the wrapper the parent's score and, as
\* parent_beam_index, the slot the parent occupies (its GetBeamIndex); the
\* wrapper's own current_beam_index, its provenance arrays and its wrapped
\* state stay as they were, and so does the parent.
C40_BackPointer ==
  [][(beam'.op = "Init" /\ beam'.steps = beam.steps + 1) =>
       LET w == beam'.target
           o == IF w = "source" THEN "clone" ELSE "source"
       IN  /\ w = Hand
           /\ beam'[w].parent_beam_index = beam'.parent.current_beam_index
           /\ beam'[w].score = beam'.parent.score
           /\ beam'[w].current_beam_index = beam[w].current_beam_index
           /\ beam'[w].step_for_token = beam[w].step_for_token
           /\ beam'[w].parent_for_token = beam[w].parent_for_token
           /\ beam'[w].parent_step_for_token = beam[w].parent_step_for_token
           /\ data' = data
           /\ OtherData' = OtherData
           /\ beam'[o] = beam[o]
           /\ beam'.from = "wrapper" =>
                /\ beam'.parent = AsParent(beam[o])
                /\ beam'[w].parent_beam_index = beam[o].current_beam_index
                /\ beam'[w].score = beam[o].score
                /\ AsParent(beam'[o]) = beam'.parent]_vars

\* The clone, moved to slot 0, has just been attached to the source
\* wrapper, which sits in slot 1: the clone points back to slot 1, has the
\* source's score and is still in slot 0.
C40_Witness ==
  /\ beam.op = "Init"
  /\ beam.from = "wrapper"
  /\ beam.target = "clone"
  /\ beam.source.current_beam_index = 1
  /\ beam.clone.parent_beam_index = 1
  /\ beam.clone.score = beam.source.score
  /\ beam.clone.current_beam_index = 0

\* ------------------------------------------------------- isolation claims
\* The calls of one execution context run alone on its copy.
AloneMissingWord(o) == Len(o.head) > Len(o.word)

AloneIsAllowed(o, action) ==
  CASE ActionType(action) = COLLAPSE ->
         ~AloneMissingWord(o) /\ Len(o.stack) > 2
    [] ActionType(action) = ADD      -> ~AloneMissingWord(o)
    [] ActionType(action) = WORD     -> AloneMissingWord(o)
    [] OTHER                         -> FALSE

AlonePerform(o, action) ==
  IF ~AloneIsAllowed(o, action) THEN [o EXCEPT !.legal = FALSE]
  ELSE CASE ActionType(action) = COLLAPSE ->
              IF Len(o.stack) = 0 THEN [o EXCEPT !.dead = TRUE]
              ELSE [o EXCEPT !.stack = SubSeq(@, 1, Len(@) - 1)]
         [] ActionType(action) = ADD ->
              IF ~(Len(o.stack) > 1) THEN [o EXCEPT !.dead = TRUE]
              ELSE [o EXCEPT
                      !.stack = Append(@, o.next),
                      !.head = Append(@, o.stack[Len(o.stack)]),
                      !.label = Append(@, Label(action)),
                      !.tag = Append(@, Tag(action)),
                      !.next = @ + 1]
         [] ActionType(action) = WORD ->
              IF ~(Len(o.stack) > 1) THEN [o EXCEPT !.dead = TRUE]
              ELSE [o EXCEPT !.word = Append(@, Word(action))]

AloneCall(o, call) ==
  IF o.dead THEN o
  ELSE CASE call.kind = "Perform" -> AlonePerform(o, call.a)
         [] call.kind = "Init" ->
              [o EXCEPT !.w = WrapperInit(@, [score |-> call.a,
                                              current_beam_index |-> call.b,
                                              parent_beam_index |-> call.c])]
         [] call.kind = "SetBeamIndex" ->
              [o EXCEPT !.w = SetBeamIndex(@, call.a)]
         [] call.kind = "SetScore" -> [o EXCEPT !.w = SetScore(@, call.a)]
         [] call.kind = "SetStepForToken" ->
              [o EXCEPT !.w = SetStepForToken(@, call.a, call.b)]

RECURSIVE Alone(_, _)
Alone(o, calls) ==
  IF calls = <<>> THEN o
  ELSE Alone(AloneCall(o, Head(calls)), Tail(calls))

\* The members of its object a call reads or writes.
MembersOf(kind) ==
  CASE kind = "Perform" -> {"stack", "head", "label", "tag", "word", "next"}
    [] kind = "Init" -> {"score", "parent_beam_index"}
    [] kind = "SetBeamIndex" -> {"current_beam_index"}
    [] kind = "SetScore" -> {"score"}
    [] kind = "SetStepForToken" -> {"step_for_token"}

\* The copy the driver has in hand and the other one, as they are now.
InHandObject == ObjectOf(stack, head, label, tag, word, next, beam[Hand])

OtherObject ==
  ObjectOf(OtherStack, OtherHead, OtherLabel, OtherTag, OtherWord, OtherNext,
           beam[Other])

\* C34: after the fork by Clone, whatever the interleaving of the calls the
\* two contexts make on their own copies, no call touches a member the
\* copies share, and each copy is in the state its own calls alone lead to
\* from its state at the fork.
C34_Isolation ==
  beam.clone.exists =>
    LET h == Alone(beam.fork[Hand], beam.trace[Hand])
        o == Alone(beam.fork[Other], beam.trace[Other])
    IN  /\ h.legal
        /\ o.legal
        /\ InHandObject = [h EXCEPT !.dead = FALSE]
        /\ OtherObject = [o EXCEPT !.dead = FALSE]
        /\ failed <=> (h.dead \/ o.dead)
        /\ \A c \in {"source", "clone"} :
             \A k \in 1 .. Len(beam.trace[c]) :
               MembersOf(beam.trace[c][k].kind) \cap clone.aliases = {}

\* The clone has received a token and its word while the source has been
\* given a new score; neither copy shows the other's calls.
C34_Witness ==
  /\ ~failed
  /\ beam.clone.exists
  /\ Hand = "clone"
  /\ Len(beam.trace.clone) = 2
  /\ beam.trace.clone[1].kind = "Perform"
  /\ beam.trace.clone[2].kind = "Perform"
  /\ beam.trace.source = <<Call("SetScore", 1, 0, 0)>>
  /\ Len(head) = 1
  /\ Len(word) = 1
  /\ Len(OtherHead) = 0
  /\ beam.source.score = 1
  /\ beam.clone.score = 0

\* C29: a wrapper whose wrapped state is final has been attached by
\* Init(parent) before, and a wrapper that was just constructed is not
\* final.
C29_Lifecycle ==
  /\ (beam[Hand].exists /\ IsFinalState) => Hand \in beam.attached
  /\ beam.op = "Wrap" => ~IsFinalState

DecodedInRange ==
  /\ codec.op = "decode"
  /\ codec.action >= 0
  /\ codec.action < NumActionsFor(codec.L, codec.T, codec.W)

\* C16: for every L, T, W >= 1, re-encoding what an integer of
\* [0, 1 + L*T + W) decodes to gives that integer back, and decoding the
\* encoding of Collapse, of Add(label, tag) with label < L and tag < T, or
\* of Word(word) with word < W gives the same kind, label, tag and word.
C16_RoundTrip ==
  /\ DecodedInRange =>
       /\ codec.kind = COLLAPSE => CollapseAction = codec.action
       /\ codec.kind = ADD =>
            AddActionFor(codec.L, codec.label, codec.tag) = codec.action
       /\ codec.kind = WORD =>
            WordActionFor(codec.L, codec.T, codec.word) = codec.action
  /\ codec.op = "encode" =>
       /\ ActionTypeFor(codec.L, codec.T, codec.action) = codec.kind
       /\ LabelFor(codec.L, codec.T, codec.action) = codec.label
       /\ TagFor(codec.L, codec.T, codec.action) = codec.tag
       /\ WordFor(codec.L, codec.T, codec.action) = codec.word

\* Add(1, 2) has been encoded for 2 labels and 3 tags.
C16_Witness ==
  /\ codec.op = "encode"
  /\ codec.kind = ADD
  /\ codec.L = 2
  /\ codec.T = 3
  /\ codec.label = 1
  /\ codec.tag = 2
  /\ codec.action = 6

C18_OutOfRangeFails ==
  (/\ codec.op = "decode"
   /\ (\/ codec.action < 0
       \/ codec.action >= NumActionsFor(codec.L, codec.T, codec.W)))
  => codec.error

\* ------------------------------------------------------ tree-shape claims
\* C31: for an allowed ADD, ChildIndex is the token the action creates and
\* ParentIndex the element that gains it, so that after the action
\* head[ChildIndex] = ParentIndex.
C31_ChildIsCreatedToken ==
  [][\A a \in ActionDomain :
       (Performs(a) /\ ActionType(a) = ADD /\ last'.allowed /\ ~failed')
       => (/\ ChildIndex(a) = next
           /\ head'[next + 1] = ParentIndex(a))]_vars

\* The stack is a path of the partial tree that starts at the root: the
\* bottom is the root, and every element above it is the root or a generated
\* token whose head is the element directly beneath it.
StackIsPath ==
  /\ Len(stack) >= 1
  /\ stack[1] = -1
  /\ \A k \in 2 .. Len(stack) :
       /\ stack[k] \in ({-1} \cup Positions)
       /\ HeadAt(stack[k]) = stack[k - 1]

\* C32: the stack is a root-to-leaf path of the partial tree. It is one
\* after construction, every allowed action keeps it one, and the item an
\* allowed COLLAPSE removes is a child of the item that becomes the top.
C32_StackIsPath ==
  /\ [](LegalRun => StackIsPath)
  /\ [][\A a \in ActionDomain :
          (Performs(a) /\ last'.allowed /\ StackIsPath) => StackIsPath']_vars
  /\ [][(Performs(CollapseAction) /\ last'.allowed /\ ~failed' /\ StackIsPath)
          => (/\ HeadAt(PopResult) = Stack(0)'
              /\ PopResult = Stack(0)
              /\ Stack(0)' = Stack(1))]_vars

\* Token 1, whose head is token 0, has just been removed by an allowed
\* COLLAPSE from the path -1, -1, 0, 1; token 0 is the top again.
C32_Witness ==
  /\ ~failed
  /\ onlyLegal
  /\ last.op = "Perform"
  /\ last.action = CollapseAction
  /\ StackIsPath
  /\ stack = <<-1, -1, 0>>
  /\ head = <<-1, 0>>
  /\ 1 \in collapsed

\* C35: a token removed by COLLAPSE is no attachment point any more: it
\* never comes back on the stack and no later token gets it as head; every
\* generated position is pushed once, by the ADD that creates it, and the
\* stack holds no generated position twice.
StackDistinct ==
  /\ \A j \in 1 .. Len(stack) : \A k \in 1 .. Len(stack) :
       (j # k /\ stack[j] >= 0) => stack[j] # stack[k]
  /\ \A k \in 1 .. Len(stack) : stack[k] < next
  /\ \A i \in collapsed :
       /\ i < next
       /\ i >= 0 => \A k \in 1 .. Len(stack) : stack[k] # i

C35_CollapsedNeverReturns ==
  /\ [](LegalRun => StackDistinct)
  /\ [][\A a \in ActionDomain :
          (Performs(a) /\ last'.allowed /\ StackDistinct) =>
            /\ StackDistinct'
            /\ collapsed \subseteq collapsed'
            /\ (ActionType(a) = ADD /\ ~failed') =>
                 /\ Stack(0)' = next
                 /\ \A k \in 1 .. Len(stack) : stack[k] # next
                 /\ next \notin collapsed
                 /\ head'[next + 1] >= 0 => head'[next + 1] \notin collapsed
            /\ ActionType(a) # ADD =>
                 \A k \in 1 .. Len(stack') :
                   \E j \in 1 .. Len(stack) : stack[j] = stack'[k]]_vars

\* Token 0 was removed by COLLAPSE; the token created afterwards hangs
\* under the root, and token 0 is not on the stack.
C35_Witness ==
  /\ ~failed
  /\ onlyLegal
  /\ last.op = "Perform"
  /\ ActionType(last.action) = ADD
  /\ collapsed = {0}
  /\ stack = <<-1, -1, 1>>
  /\ head = <<-1, -1>>
  /\ StackDistinct

\* Every stack element is the root or lies below next.
StackBelowNext == \A k \in 1 .. Len(stack) : stack[k] >= -1 /\ stack[k] < next

\* C36: for every generated token i, -1 <= head[i] < i, so that the
\* structure is acyclic and Parent(i, n) is the root for some n <= i + 1.
C36_ParentsFirst ==
  /\ [](LegalRun => HeadsBelow)
  /\ [][\A a \in ActionDomain :
          (Performs(a) /\ last'.allowed /\ HeadsBelow /\ StackBelowNext)
          => (HeadsBelow' /\ StackBelowNext')]_vars
  /\ [](HeadsBelow =>
          \A i \in Positions :
            /\ Parent(i, i + 1) = -1
            /\ \E n \in 1 .. (i + 1) :
                 /\ Parent(i, n) = -1
                 /\ \A m \in 0 .. (n - 1) : Parent(i, m) \in 0 .. i)

\* Token 1 has just been created under token 0: its parent chain is 0, then
\* the root.
C36_Witness ==
  /\ ~failed
  /\ onlyLegal
  /\ last.op = "Perform"
  /\ ActionType(last.action) = ADD
  /\ head = <<-1, 0>>
  /\ HeadsBelow
  /\ Parent(1, 1) = 0
  /\ Parent(1, 2) = -1

\* C37: while a word is missing the allowed actions are exactly the WORD
\* actions and otherwise no WORD is allowed; an allowed ADD leaves the new
\* token, position next-1 on top of the stack, without its word; and among
\* allowed actions a WORD comes only directly after an ADD.
C37_AddThenWord ==
  /\ [](MissingWord =>
          \A a \in ActionDomain : IsAllowedAction(a) <=> ActionType(a) = WORD)
  /\ [](~MissingWord =>
          \A a \in ActionDomain : ActionType(a) = WORD => ~IsAllowedAction(a))
  /\ [][\A a \in ActionDomain :
          (Performs(a) /\ ActionType(a) = ADD /\ onlyLegal' /\ ~failed')
          => (/\ MissingWord'
              /\ Stack(0)' = next' - 1
              /\ Len(word') = next' - 1
              /\ Len(head') = next')]_vars
  /\ [][\A a \in ActionDomain :
          (/\ Performs(a)
           /\ ActionType(a) = WORD
           /\ onlyLegal'
           /\ last.op = "Perform")
          => ActionType(last.action) = ADD]_vars

\* The second token has just been added by an allowed ADD: it is position 1,
\* on top of the stack, and its word is the one missing.
C37_Witness ==
  /\ ~failed
  /\ onlyLegal
  /\ last.op = "Perform"
  /\ ActionType(last.action) = ADD
  /\ MissingWord
  /\ next = 2
  /\ Stack(0) = 1
  /\ Len(word) = 1
  /\ \A a \in ActionDomain : IsAllowedAction(a) <=> ActionType(a) = WORD

\* C38: an allowed action never takes the stack depth from 2 or more to
\* less than 2, so a state that is not final stays not final.
C38_NeverFinalAgain ==
  [][\A a \in ActionDomain :
       (Performs(a) /\ last'.allowed /\ ~IsFinalState)
       => (/\ StackSize' >= 2
           /\ ~IsFinalState'
           /\ StackSize' < StackSize => (ActionType(a) = COLLAPSE /\ StackSize > 2))]_vars

\* An allowed COLLAPSE has just brought the depth down to 2, where COLLAPSE
\* is no longer allowed and the state is not final.
C38_Witness ==
  /\ ~failed
  /\ onlyLegal
  /\ last.op = "Perform"
  /\ last.action = CollapseAction
  /\ StackSize = 2
  /\ ~IsFinalState
  /\ ~IsAllowedCollapse
  /\ collapsed = {0}

\* C39: in a state that is not final some action of [0, NumActions) is
\* allowed, and an allowed action applied there does not fail.
C39_NoDeadlock ==
  /\ []((~failed /\ ~IsFinalState) =>
          \E a \in 0 .. (NumActions - 1) : IsAllowedAction(a))
  /\ [][\A a \in ActionDomain :
          (Performs(a) /\ last'.allowed /\ ~IsFinalState)
          => (~failed' /\ data' # data)]_vars

\* The word of the first token has just been supplied at depth 3: the state
\* is not final and both COLLAPSE and ADD are allowed.
C39_Witness ==
  /\ ~failed
  /\ ~IsFinalState
  /\ last.op = "Perform"
  /\ ActionType(last.action) = WORD
  /\ last.allowed
  /\ StackSize = 3
  /\ next = 1
  /\ IsAllowedAction(CollapseAction)
  /\ IsAllowedAction(AddAction(0, 0))

\* ------------------------------------------------------ document creation
\* The term maps the state was constructed with.
LabelMap == <<"det", "ROOT">>

TagMap == <<"NN">>

WordMap == <<"a", "b">>

kRootLabel == "ROOT"

kDefaultRootLabel == -1

\* TermFrequencyMap::LookupIndex: the index of the term, or `unknown`.
LookupIndex(map, term, unknown) ==
  IF \E i \in 1 .. Len(map) : map[i] = term
  THEN (CHOOSE i \in 1 .. Len(map) : map[i] = term) - 1
  ELSE unknown

\* root_label_ as the constructor sets it.
RootLabel == LookupIndex(LabelMap, kRootLabel, kDefaultRootLabel)

\* GeneratorState::Label(index).
LabelAt(index) ==
  IF index < -1 \/ ~(index < Len(label)) THEN CheckFailed
  ELSE IF index = -1 THEN RootLabel ELSE label[index + 1]

\* GeneratorState::Tag(index) and Word(index): the entries of tag_ and
\* word_, range-checked like Label(index).
TagAt(index) ==
  IF index < 0 \/ ~(index < Len(tag)) THEN CheckFailed
  ELSE tag[index + 1]

WordAt(index) ==
  IF index < 0 \/ ~(index < Len(word)) THEN CheckFailed
  ELSE word[index + 1]

LabelAsString(l) ==
  IF l = RootLabel THEN kRootLabel
  ELSE IF l >= 0 /\ l < Len(LabelMap) THEN LabelMap[l + 1]
  ELSE ""

TagAsString(t) == IF t >= 0 /\ t < Len(TagMap) THEN TagMap[t + 1] ELSE ""

WordAsString(w) == IF w >= 0 /\ w < Len(WordMap) THEN WordMap[w + 1] ELSE ""

\* The values num_tokens_, which nothing in the code sets, may hold.
NumTokensDomain == 0 .. (MaxDocTokens + 1)

\* A CHECK fails while output token i is filled.
TokenFails(i) ==
  \/ LabelAt(i) = CheckFailed
  \/ TagAt(i) = CheckFailed
  \/ WordAt(i) = CheckFailed
  \/ HeadAt(i) = CheckFailed

\* The output token the loop body of CreateDocument builds for position i.
OutputToken(i, rewrite_root_labels) ==
  [label |-> IF HeadAt(i) = -1 /\ rewrite_root_labels
             THEN LabelAsString(RootLabel)
             ELSE LabelAsString(LabelAt(i)),
   tag |-> TagAsString(TagAt(i)),
   word |-> WordAsString(WordAt(i)),
   has_head |-> HeadAt(i) # -1,
   head |-> HeadAt(i)]

\* GeneratorState::CreateDocument: the loop runs over NumTokens() positions
\* and stops at the first failed CHECK.
CreateDocument(rewrite_root_labels, num_tokens) ==
  /\ ~failed
  /\ ~document.made
  /\ LET bad == {i \in 0 .. (num_tokens - 1) : TokenFails(i)}
         done == IF bad = {} THEN num_tokens ELSE Least(bad)
     IN  /\ document' =
               [made |-> TRUE, rewrite_root_labels |-> rewrite_root_labels,
                num_tokens |-> num_tokens,
                tokens |-> [i \in 1 .. done |->
                              OutputToken(i - 1, rewrite_root_labels)]]
         /\ failed' = (bad # {})
  /\ last' = [op |-> "CreateDocument", action |-> -1, allowed |-> TRUE]
  /\ UNCHANGED <<data, debug, onlyLegal, noDirect, scen, collapsed>>
  /\ UNCHANGED <<keep_history, history, clone, codec, beam>>

\* The driver builds up the stack before generating.
PrepareDocument(index) ==
  /\ ~document.made
  /\ Prepare(index)

\* An allowed action applied while the tree is generated.
Generate(action) ==
  /\ ~failed
  /\ ~document.made
  /\ IsAllowedAction(action)
  /\ (ActionType(action) = ADD => next < MaxDocTokens)
  /\ PerformActionWithoutHistory(action)
  /\ last' = [op |-> "Perform", action |-> action, allowed |-> TRUE]
  /\ UNCHANGED <<debug, onlyLegal, noDirect, scen, collapsed>>
  /\ UNCHANGED aux

NextDocument ==
  \/ \E index \in PushDomain : PrepareDocument(index)
  \/ \E action \in ActionDomain : Generate(action)
  \/ \E rewrite_root_labels \in BOOLEAN : \E num_tokens \in NumTokensDomain :
       CreateDocument(rewrite_root_labels, num_tokens)

SpecDocument == Init /\ [][NextDocument]_vars

\* C33: CreateDocument completes without failure and emits one output token
\* per generated token, in position order, with that token's tag and word;
\* a token under the root has no head and, when rewrite_root_labels is set,
\* the root label, and any other token has head[i] and its own label.
C33_OneTokenPerGenerated ==
  document.made =>
    /\ ~failed
    /\ Len(document.tokens) = Len(head)
    /\ \A i \in Positions :
         LET token == document.tokens[i + 1]
         IN  /\ token.tag = TagAsString(tag[i + 1])
             /\ token.word = WordAsString(word[i + 1])
             /\ head[i + 1] = -1 =>
                  /\ ~token.has_head
                  /\ token.label =
                       IF document.rewrite_root_labels
                       THEN LabelAsString(RootLabel)
                       ELSE LabelAsString(label[i + 1])
             /\ head[i + 1] # -1 =>
                  /\ token.has_head
                  /\ token.head = head[i + 1]
                  /\ token.label = LabelAsString(label[i + 1])

====
